---- MODULE Spec2Model ----
(***************************************************************************)
(* Model of script/interactions/compute_eclp_derived_params.py: the        *)
(* derivation of the Gyro E-CLP DerivedEclpParams with Python's decimal    *)
(* module at 200 significant digits, scaled by 1e38 and truncated.         *)
(*                                                                         *)
(* A Decimal is a record [sign, coef, exp] standing for                    *)
(* (-1)^sign * coef * 10^exp.  The coefficient is an arbitrary-precision   *)
(* natural number, held as a sequence of limbs in base 1000, least         *)
(* significant limb first, without leading zero limbs (zero is <<>>).      *)
(* Every arithmetic operation is computed exactly as the decimal module    *)
(* computes it: exact result, then rounding to the context precision with  *)
(* ROUND_HALF_EVEN.                                                        *)
(***************************************************************************)
EXTENDS Integers, Sequences, FiniteSets, TLC

(***************************************************************************)
(* Natural numbers of arbitrary size (the coefficients of Decimal and the  *)
(* values of Python's int).                                                *)
(***************************************************************************)
BASE == 10 * 10 * 10

Min(x, y) == IF x < y THEN x ELSE y

Max(x, y) == IF x < y THEN y ELSE x

P10(r) == IF r = 0 THEN 1 ELSE IF r = 1 THEN 10 ELSE IF r = 2 THEN 100 ELSE BASE

\* The sequence x with every element evaluated
Tup(x) == x \o <<>>

Limb(x, k) == IF k >= 1 /\ k <= Len(x) THEN x[k] ELSE 0

NatTrim(x) ==
  LET n == CHOOSE k \in 0..Len(x) :
             (k = 0 \/ x[k] # 0) /\ \A m \in (k+1)..Len(x) : x[m] = 0
  IN  SubSeq(x, 1, n)

\* One carry pass over limbs that may exceed the base: every limb keeps its
\* low part and receives the high part of the limb below it.
Pass(x) ==
  [k \in 1..Len(x) |-> (x[k] % BASE) + (IF k = 1 THEN 0 ELSE x[k-1] \div BASE)]

CarryChain(x, k) ==
  \E j \in 1..(k-1) : x[j] >= BASE /\ \A m \in (j+1)..(k-1) : x[m] = BASE - 1

CarryInto(x, k) ==
  k > 1 /\ (x[k-1] >= BASE \/ (x[k-1] = BASE - 1 /\ CarryChain(x, k-1)))

\* The last carries, for limbs in 0..2*BASE-2.
Ripple(x) ==
  [k \in 1..Len(x) |-> (x[k] + (IF CarryInto(x, k) THEN 1 ELSE 0)) % BASE]

NatNorm(x) == NatTrim(Ripple(Tup(Pass(Tup(Pass(Tup(Pass(Tup(x)))))))))

NatFromInt(n) == NatTrim(<<n % BASE, (n \div BASE) % BASE, n \div (BASE * BASE)>>)

NatAdd(x, y) ==
  NatTrim(Ripple(Tup([k \in 1..(Max(Len(x), Len(y)) + 1) |-> Limb(x, k) + Limb(y, k)])))

BorrowChain(x, k) ==
  \E j \in 1..(k-1) : x[j] < 0 /\ \A m \in (j+1)..(k-1) : x[m] = 0

BorrowInto(x, k) ==
  k > 1 /\ (x[k-1] < 0 \/ (x[k-1] = 0 /\ BorrowChain(x, k-1)))

\* The borrows, for limbs in 1-BASE..BASE-1 of a number that is not negative
Settle(x) ==
  [k \in 1..Len(x) |-> (x[k] - (IF BorrowInto(x, k) THEN 1 ELSE 0)) % BASE]

\* x - y for x >= y
NatSub(x, y) == NatTrim(Settle(Tup([k \in 1..Len(x) |-> x[k] - Limb(y, k)])))

\* -1, 0, 1 as x < y, x = y, x > y
CmpAt(x, y, k) == IF x[k] < y[k] THEN -1 ELSE 1

NatCmp(x, y) ==
  IF Len(x) # Len(y) THEN (IF Len(x) < Len(y) THEN -1 ELSE 1)
  ELSE IF x = y THEN 0
  ELSE CmpAt(x, y, CHOOSE i \in 1..Len(x) :
                     x[i] # y[i] /\ \A m \in (i+1)..Len(x) : x[m] = y[m])

\* x * n for a small n (n <= 2 * BASE * BASE)
NatMulSmall(x, n) ==
  IF x = <<>> \/ n = 0 THEN <<>>
  ELSE NatNorm([k \in 1..(Len(x) + 3) |-> Limb(x, k) * n])

\* x * n for one limb n (n < BASE)
NatMulLimb(x, n) ==
  IF x = <<>> \/ n = 0 THEN <<>>
  ELSE NatTrim(Ripple(Tup(Pass(Tup([k \in 1..(Len(x) + 1) |-> Limb(x, k) * n])))))

RECURSIVE ColSum(_, _, _, _, _)
ColSum(x, y, k, lo, hi) ==
  IF hi - lo < 4
  THEN   (IF lo     <= hi THEN x[lo]   * y[k+1-lo] ELSE 0)
       + (IF lo + 1 <= hi THEN x[lo+1] * y[k-lo]   ELSE 0)
       + (IF lo + 2 <= hi THEN x[lo+2] * y[k-1-lo] ELSE 0)
       + (IF lo + 3 <= hi THEN x[lo+3] * y[k-2-lo] ELSE 0)
  ELSE LET mid == (lo + hi) \div 2
       IN  ColSum(x, y, k, lo, mid) + ColSum(x, y, k, mid + 1, hi)

NatMul(x, y) ==
  IF x = <<>> \/ y = <<>> THEN <<>>
  ELSE NatNorm([k \in 1..(Len(x) + Len(y)) |->
                  ColSum(x, y, k, Max(1, k + 1 - Len(y)), Min(k, Len(x)))])

\* x * 10^k
NatShl10(x, k) ==
  IF x = <<>> THEN <<>>
  ELSE [i \in 1..(k \div 3) |-> 0] \o NatMulSmall(x, P10(k % 3))

\* x \div 10^k
NatShr10(x, k) ==
  LET q == k \div 3
      r == k % 3
  IN  IF Len(x) <= q THEN <<>>
      ELSE NatTrim([i \in 1..(Len(x) - q) |->
                      (x[i+q] \div P10(r)) + (Limb(x, i+q+1) % P10(r)) * P10(3 - r)])

\* the decimal digit of weight 10^i
NatDigit(x, i) == (Limb(x, (i \div 3) + 1) \div P10(i % 3)) % 10

\* x % 10^i # 0
NatLowNonzero(x, i) ==
  \/ \E m \in 1..Min(i \div 3, Len(x)) : x[m] # 0
  \/ Limb(x, (i \div 3) + 1) % P10(i % 3) # 0

\* len(str(x))
NatDigits(x) ==
  IF x = <<>> THEN 1
  ELSE 3 * (Len(x) - 1)
       + (IF x[Len(x)] >= 100 THEN 3 ELSE IF x[Len(x)] >= 10 THEN 2 ELSE 1)

\* the number of trailing zero digits of x # 0
NatTz(x) ==
  LET j == CHOOSE i \in 1..Len(x) : x[i] # 0 /\ \A m \in 1..(i-1) : x[m] = 0
  IN  3 * (j - 1)
      + (IF x[j] % 10 # 0 THEN 0 ELSE IF x[j] % 100 # 0 THEN 1 ELSE 2)

\* The trial quotient limb for the running remainder R (< y * BASE), from
\* the leading limbs: the quotient limb or one more.
TrialLimb(y, R) ==
  IF Len(y) = 1
  THEN (Limb(R, 2) * BASE + Limb(R, 1)) \div y[1]
  ELSE Min((Limb(R, Len(y) + 1) * BASE * BASE + Limb(R, Len(y)) * BASE + Limb(R, Len(y) - 1))
              \div (y[Len(y)] * BASE + y[Len(y) - 1]), BASE - 1)

\* The quotient limb and the remainder, from the trial limb qh and P = qh * y
DivSettle(y, R, q, qh, P) ==
  IF NatCmp(P, R) = 1
  THEN [r |-> NatSub(R, NatSub(P, y)), q |-> <<qh - 1>> \o q]
  ELSE [r |-> NatSub(R, P), q |-> <<qh>> \o q]

DivTrial(y, R, q, qh) == DivSettle(y, R, q, qh, NatMulLimb(y, qh))

\* One step of long division: the limb x[i] is brought down to the running
\* remainder st.r (< y) and the next quotient limb is produced.
DivStep(x, y, i, st) ==
  DivTrial(y, IF st.r = <<>> /\ x[i] = 0 THEN <<>> ELSE <<x[i]>> \o st.r, st.q,
           TrialLimb(y, IF st.r = <<>> /\ x[i] = 0 THEN <<>> ELSE <<x[i]>> \o st.r))

\* The steps for the limbs hi, hi-1, ..., lo of x
RECURSIVE DivIter(_, _, _, _, _)
DivRest(x, y, hi, lo, st) == IF Len(st.q) >= 0 THEN DivIter(x, y, hi, lo, st) ELSE st

DivIter(x, y, hi, lo, st) ==
  IF hi = lo THEN DivStep(x, y, hi, st)
  ELSE DivRest(x, y, ((hi + lo + 1) \div 2) - 1, lo,
               DivIter(x, y, hi, (hi + lo + 1) \div 2, st))

DivResult(st) == [q |-> NatTrim(st.q), r |-> st.r]

\* divmod(x, y) for y # 0
NatDivMod(x, y) ==
  IF NatCmp(x, y) < 0 THEN [q |-> <<>>, r |-> x]
  ELSE DivResult(DivIter(x, y, Len(x) - Len(y) + 1, 1,
                         [r |-> SubSeq(x, Len(x) - Len(y) + 2, Len(x)), q |-> <<>>]))

\* x \div 2
NatHalf(x) ==
  NatTrim([k \in 1..Len(x) |-> (x[k] + (Limb(x, k+1) % 2) * BASE) \div 2])

RECURSIVE IntSqrtIter(_, _)
IntSqrtIter(n, g) ==
  LET h == (g + n \div g) \div 2
  IN  IF h >= g THEN g ELSE IntSqrtIter(n, h)

IntSqrt(n) == IF n = 0 THEN 0 ELSE IntSqrtIter(n, n)

\* One step of Newton's iteration for the square root of x from the guess
\* g > 0; the result is never below the integer square root.
NewtonStep(x, g) == NatHalf(NatAdd(g, NatDivMod(x, g).q))

\* The integer square root of x and its square, from a guess not below it.
RECURSIVE SqrtFix(_, _)
SqrtFixSq(x, g, sq) ==
  IF NatCmp(sq, x) = 1 THEN SqrtFix(x, NatSub(g, <<1>>)) ELSE [root |-> g, sq |-> sq]

SqrtFix(x, g) == SqrtFixSq(x, g, NatMul(g, g))

\* Newton's iteration from a guess not below the integer square root of x,
\* to the integer square root.
RECURSIVE NewtonDown(_, _)
NewtonDownTo(x, g, h) == IF NatCmp(h, g) >= 0 THEN g ELSE NewtonDown(x, h)

NewtonDown(x, g) == NewtonDownTo(x, g, NewtonStep(x, g))

\* The integer square root (and its square) of the leading 2*l limbs of x, x
\* taken as a number of 2*L limbs.  The root sp of the leading limbs to the
\* length prev, found first, gives the guess: of Newton's iteration for a
\* short root, and of the one Newton step that doubles the precision for a
\* long one.
SqrtRefine(top, l, prev, sp) ==
  IF Len(sp.root) < 0 THEN sp
  ELSE IF l = 2 THEN SqrtFix(top, NewtonDown(top, <<0>> \o NatAdd(sp.root, <<1>>)))
  ELSE SqrtFix(top, NewtonStep(top, [i \in 1..(l - prev) |-> 0] \o sp.root))

RECURSIVE SqrtLevel(_, _, _)
SqrtLevel(x, L, l) ==
  IF l = 1
  THEN SqrtFix(NatTrim(<<Limb(x, 2 * L - 1), Limb(x, 2 * L)>>),
               NatFromInt(IntSqrt(Limb(x, 2 * L) * BASE + Limb(x, 2 * L - 1))))
  ELSE SqrtRefine(SubSeq(x, 2 * (L - l) + 1, Len(x)), l,
                  IF l <= 2 THEN 1 ELSE (l + 2) \div 2,
                  SqrtLevel(x, L, IF l <= 2 THEN 1 ELSE (l + 2) \div 2))

\* math.isqrt(x) and its square
NatSqrt(x) ==
  IF x = <<>> THEN [root |-> <<>>, sq |-> <<>>]
  ELSE SqrtLevel(x, (Len(x) + 1) \div 2, (Len(x) + 1) \div 2)

(***************************************************************************)
(* decimal.Decimal under the context of the script: precision prec,        *)
(* rounding ROUND_HALF_EVEN, the traps of the default context (a division  *)
(* by zero and an invalid operation raise).                                *)
(***************************************************************************)
prec == 200

Decimal(sg, cf, ex) == [sign |-> sg, coef |-> cf, exp |-> ex]

\* A raised exception, in the place of the value of the operation
Raised(name) == [exc |-> name]

IsExc(x) == "exc" \in DOMAIN x

IsZero(x) == x.coef = <<>>

\* Decimal._fix: the coefficient is rounded to pr digits, half to even
DecFix(sg, cf, ex, pr) ==
  LET k == NatDigits(cf) - pr
  IN  IF cf = <<>> \/ k <= 0 THEN Decimal(sg, cf, ex)
      ELSE LET q  == NatShr10(cf, k)
               d1 == NatDigit(cf, k - 1)
               up == d1 > 5 \/ (d1 = 5 /\ (NatLowNonzero(cf, k - 1) \/ q[1] % 2 = 1))
               q1 == IF up THEN NatAdd(q, <<1>>) ELSE q
           IN  IF NatDigits(q1) > pr
               THEN Decimal(sg, NatShr10(q1, 1), ex + k + 1)
               ELSE Decimal(sg, q1, ex + k)

DecNeg(x) == Decimal(1 - x.sign, x.coef, x.exp)

\* The sum of two nonzero operands.  As _normalize does, an operand too
\* small to change the rounded sum other than by its sign is replaced by
\* 10^ex, and the operand of the larger exponent is brought to the smaller.
DecAddNonzero(x, y, pr) ==
  LET xBig == x.exp >= y.exp
      tmp  == IF xBig THEN x ELSE y
      oth  == IF xBig THEN y ELSE x
      ex   == tmp.exp + Min(-1, NatDigits(tmp.coef) - pr - 2)
      tiny == NatDigits(oth.coef) + oth.exp - 1 < ex
      oc   == IF tiny THEN <<1>> ELSE oth.coef
      oe   == IF tiny THEN ex ELSE oth.exp
      tc   == NatShl10(tmp.coef, tmp.exp - oe)
      cmp  == NatCmp(tc, oc)
  IN  IF tmp.sign = oth.sign THEN DecFix(tmp.sign, NatAdd(tc, oc), oe, pr)
      ELSE IF cmp = 0 THEN Decimal(0, <<>>, Min(x.exp, y.exp))
      ELSE IF cmp > 0 THEN DecFix(tmp.sign, NatSub(tc, oc), oe, pr)
      ELSE DecFix(oth.sign, NatSub(oc, tc), oe, pr)

\* Decimal.__add__ at the precision pr
DecAddP(x, y, pr) ==
  LET ex == Min(x.exp, y.exp)
  IN  IF IsZero(x) /\ IsZero(y) THEN Decimal(Min(x.sign, y.sign), <<>>, ex)
      ELSE IF IsZero(x)
      THEN LET e2 == Max(ex, y.exp - pr - 1)
           IN  DecFix(y.sign, NatShl10(y.coef, y.exp - e2), e2, pr)
      ELSE IF IsZero(y)
      THEN LET e1 == Max(ex, x.exp - pr - 1)
           IN  DecFix(x.sign, NatShl10(x.coef, x.exp - e1), e1, pr)
      ELSE DecAddNonzero(x, y, pr)

DecAdd(x, y) == DecAddP(x, y, prec)

DecSub(x, y) == DecAddP(x, DecNeg(y), prec)

\* Decimal.__mul__ at the precision pr
DecMulP(x, y, pr) ==
  DecFix((x.sign + y.sign) % 2, NatMul(x.coef, y.coef), x.exp + y.exp, pr)

DecMul(x, y) == DecMulP(x, y, prec)

\* The quotient of two nonzero operands: prec + 1 digits of the quotient
\* (made odd in its last digit when the division is inexact, so that the
\* rounding sees it), or the exact quotient brought towards the ideal
\* exponent.
DecDivRound(sg, ex, shift, qr) ==
  IF qr.r # <<>>
  THEN DecFix(sg, IF Limb(qr.q, 1) % 5 = 0 THEN NatAdd(qr.q, <<1>>) ELSE qr.q, ex, prec)
  ELSE LET k == Max(0, Min(shift, NatTz(qr.q)))
       IN  DecFix(sg, NatShr10(qr.q, k), ex + k, prec)

DecDivShift(x, y, shift) ==
  DecDivRound((x.sign + y.sign) % 2, x.exp - y.exp - shift, shift,
              IF shift >= 0
              THEN NatDivMod(NatShl10(x.coef, shift), y.coef)
              ELSE NatDivMod(x.coef, NatShl10(y.coef, -shift)))

DecDivNonzero(x, y) == DecDivShift(x, y, NatDigits(y.coef) - NatDigits(x.coef) + prec + 1)

\* A division that yields zero for a zero divisor instead of raising
DecDivZeroGuard(x, y) ==
  IF IsZero(y) THEN Decimal(0, <<>>, 0)
  ELSE IF IsZero(x) THEN Decimal((x.sign + y.sign) % 2, <<>>, x.exp - y.exp)
  ELSE DecDivNonzero(x, y)

\* Decimal.__truediv__
DecDiv(x, y) ==
  IF IsZero(y) THEN (IF IsZero(x) THEN Raised("InvalidOperation") ELSE Raised("DivisionByZero"))
  ELSE IF IsZero(x) THEN Decimal((x.sign + y.sign) % 2, <<>>, x.exp - y.exp)
  ELSE DecDivNonzero(x, y)

\* The square root of a positive operand: the integer square root of the
\* coefficient brought to 2 * (prec + 1) digits, or the exact root.
DecSqrtRound(c0, c1, shift, e1, rt) ==
  IF (shift >= 0 \/ ~NatLowNonzero(c0, -2 * shift)) /\ rt.sq = c1
  THEN DecFix(0, IF shift >= 0 THEN NatShr10(rt.root, shift) ELSE NatShl10(rt.root, -shift),
              e1 + shift, prec)
  ELSE DecFix(0, IF Limb(rt.root, 1) % 5 = 0 THEN NatAdd(rt.root, <<1>>) ELSE rt.root,
              e1, prec)

DecSqrtScaled(c0, c1, shift, e1) == DecSqrtRound(c0, c1, shift, e1, NatSqrt(c1))

DecSqrtShift(x, c0, shift) ==
  DecSqrtScaled(c0, IF shift >= 0 THEN NatShl10(c0, 2 * shift) ELSE NatShr10(c0, -2 * shift),
                shift, (x.exp \div 2) - shift)

DecSqrtPositive(x) ==
  DecSqrtShift(x, IF x.exp % 2 = 1 THEN NatMulSmall(x.coef, 10) ELSE x.coef,
               prec + 1 - (IF x.exp % 2 = 1 THEN (NatDigits(x.coef) \div 2) + 1
                                            ELSE (NatDigits(x.coef) + 1) \div 2))

\* Decimal.sqrt
DecSqrt(x) ==
  IF IsZero(x) THEN Decimal(x.sign, <<>>, x.exp \div 2)
  ELSE IF x.sign = 1 THEN Raised("InvalidOperation")
  ELSE DecSqrtPositive(x)

\* x rounded to the context precision
DecRound(x) == DecFix(x.sign, x.coef, x.exp, prec)

\* x ** 2: the power by squaring of the decimal module's C implementation,
\* the product rounded to prec + 3 digits and rounded again to prec.
DecPow2(x) ==
  IF IsZero(x) THEN Decimal(0, <<>>, 0)
  ELSE DecRound(DecMulP(x, x, prec + 3))

\* A Python int: its sign and its magnitude
PyInt(ng, mg) == [neg |-> ng /\ mg # <<>>, mag |-> mg]

\* int(x): truncation towards zero
DecToInt(x) ==
  PyInt(x.sign = 1,
        IF x.exp >= 0 THEN NatShl10(x.coef, x.exp) ELSE NatShr10(x.coef, -x.exp))

(***************************************************************************)
(* The script.  Its module-level variables are the state; a variable not   *)
(* yet assigned is None.  The script runs top to bottom, one section per   *)
(* action; an exception raised by the arithmetic is not caught anywhere    *)
(* and ends the run.                                                       *)
(***************************************************************************)
VARIABLES
  pc,                                   \* the section the run is about to execute
  alpha, beta, c, s, lam,               \* base E-CLP parameters
  dSq, d,
  tauAlpha_x, tauAlpha_y, tauBeta_x, tauBeta_y,
  u, v, w, z,
  tauAlpha_x_38, tauAlpha_y_38, tauBeta_x_38, tauBeta_y_38,
  u_38, v_38, w_38, z_38, dSq_38,
  out,                                  \* the lines printed to standard output
  err                                   \* the uncaught exception, if any

params == <<alpha, beta, c, s, lam>>

step1Vars == <<dSq, d>>

tauAlphaVars == <<tauAlpha_x, tauAlpha_y>>

tauBetaVars == <<tauBeta_x, tauBeta_y>>

step3Vars == <<u, v, w, z>>

step4Vars == <<tauAlpha_x_38, tauAlpha_y_38, tauBeta_x_38, tauBeta_y_38,
               u_38, v_38, w_38, z_38, dSq_38>>

vars == <<pc, params, step1Vars, tauAlphaVars, tauBetaVars, step3Vars, step4Vars, out, err>>

None == [none |-> TRUE]

\* The largest index of the grid of price bounds the runs are started with
MaxPriceSteps == 2

\* Decimal("<digits>") of an integer literal
DecimalLit(n) == Decimal(0, n, 0)

\* An 18-decimal numerator for a value given in thousandths
Wei(milli) == NatShl10(NatFromInt(milli), 15)

WAD == NatShl10(<<1>>, 18)

\* Decimal("<numerator>") / Decimal("1000000000000000000")
FromWad(n) == DecDiv(DecimalLit(n), DecimalLit(WAD))

\* The numerators of the source
ALPHA_WAD == NatShl10(NatFromInt(1035905), 12)

BETA_WAD == NatShl10(NatFromInt(1144947), 12)

C_WAD == Wei(1000)

S_WAD == <<>>

LAM_WAD == Wei(50000)

\* The parameters the runs are started with: those of the source, and
\* others that the contract allows (a rotated curve, a c and s that are not
\* a cosine and a sine, a lambda below one, price bounds on a grid of
\* halves), and the misconfigurations c = s = 0 and lambda = 0.
PriceBounds == {ALPHA_WAD, BETA_WAD} \cup {Wei(500 * k) : k \in 1..MaxPriceSteps}

Rotations == {<<C_WAD, S_WAD>>, <<Wei(800), Wei(600)>>, <<Wei(1000), Wei(1000)>>,
              <<Wei(0), Wei(0)>>}

Lambdas == {LAM_WAD, Wei(750), Wei(0)}

\* The scale with the digits of its exponent exchanged: Decimal(10) ** 83
SCALE_83 == DecMul(DecimalLit(<<10>>), DecimalLit(NatShl10(<<1>>, 82)))

SCALE_38 == DecMul(DecimalLit(<<10>>), DecimalLit(NatShl10(<<1>>, 37)))

Line(label, val) == [label |-> label, val |-> val]

Blank == Line("", <<>>)

\* A declaration line: the value is followed by a semicolon
Decl(label, val) == [label |-> label, val |-> val, end |-> ";"]

Init ==
  /\ \E a \in PriceBounds, b \in PriceBounds, cs \in Rotations, l \in Lambdas :
       /\ NatCmp(a, b) < 0
       /\ alpha = FromWad(a)
       /\ beta = FromWad(b)
       /\ c = FromWad(cs[1])
       /\ s = FromWad(cs[2])
       /\ lam = FromWad(l)
  /\ pc = "start"
  /\ dSq = None /\ d = None
  /\ tauAlpha_x = None /\ tauAlpha_y = None /\ tauBeta_x = None /\ tauBeta_y = None
  /\ u = None /\ v = None /\ w = None /\ z = None
  /\ tauAlpha_x_38 = None /\ tauAlpha_y_38 = None
  /\ tauBeta_x_38 = None /\ tauBeta_y_38 = None
  /\ u_38 = None /\ v_38 = None /\ w_38 = None /\ z_38 = None /\ dSq_38 = None
  /\ out = <<>>
  /\ err = None

\* An uncaught exception: the traceback, and the interpreter exits
Uncaught(e, line) ==
  /\ pc' = "failed"
  /\ err' = [exc |-> e.exc, line |-> line]

\* lines 45-51: the parameters are echoed
PrintParams ==
  /\ pc = "start"
  /\ out' = out \o <<Line("=== E-CLP Derived Parameter Computation ===", <<>>),
                     Line("alpha  = ", alpha), Line("beta   = ", beta),
                     Line("c      = ", c), Line("s      = ", s),
                     Line("lambda = ", lam), Blank>>
  /\ pc' = "step1"
  /\ UNCHANGED <<params, step1Vars, tauAlphaVars, tauBetaVars, step3Vars, step4Vars, err>>

\* dSq as a difference of the squares
dSq_difference(cc, ss) == DecSub(DecMul(cc, cc), DecMul(ss, ss))

\* dSq with s not squared
dSq_unsquared(cc, ss) == DecAdd(DecMul(cc, cc), ss)

\* line 54
dSq_calc(cc, ss) == DecAdd(DecMul(cc, cc), DecMul(ss, ss))

\* lines 54-58, Step 1: dSq and d
Step1 ==
  /\ pc = "step1"
  /\ dSq' = dSq_calc(c, s)
  /\ \E root \in {DecSqrt(dSq')} :
       IF IsExc(root)
       THEN Uncaught(root, 55) /\ UNCHANGED <<d, out>>
       ELSE /\ d' = root
            /\ out' = out \o <<Line("dSq = ", dSq'), Line("d   = ", root), Blank>>
            /\ pc' = "tauAlpha"
            /\ err' = err
  /\ UNCHANGED <<params, tauAlphaVars, tauBetaVars, step3Vars, step4Vars>>

\* The components returned in the other order
tau_pair_swapped(tau_x, tau_y) == IF IsExc(tau_y) THEN tau_y ELSE [x |-> tau_y, y |-> tau_x]

\* line 74: the pair returned, or the exception raised by line 72
tau_pair(tau_x, tau_y) == IF IsExc(tau_y) THEN tau_y ELSE [x |-> tau_x, y |-> tau_y]

\* tau_y without its division by lambda
tau_xy_unstretched(p, dFactor) ==
  IF IsExc(dFactor) THEN dFactor
  ELSE tau_pair(DecMul(DecSub(DecMul(p, c), s), dFactor),
                DecMul(DecAdd(c, DecMul(s, p)), dFactor))

\* lines 71-72 of compute_tau, the two components from dFactor
tau_xy(p, dFactor) ==
  IF IsExc(dFactor) THEN dFactor
  ELSE tau_pair(DecMul(DecSub(DecMul(p, c), s), dFactor),
                DecDiv(DecMul(DecAdd(c, DecMul(s, p)), dFactor), lam))

\* term1 without its division by lam ** 2
term1_undivided(p, c_over_d, s_over_d) == DecPow2(DecAdd(c_over_d, DecMul(p, s_over_d)))

\* line 67: term1 = (c_over_d + p * s_over_d) ** 2 / (lam ** 2)
term1_calc(p, c_over_d, s_over_d) ==
  DecDiv(DecPow2(DecAdd(c_over_d, DecMul(p, s_over_d))), DecPow2(lam))

\* line 68: term2 = (p * c_over_d - s_over_d) ** 2
term2_calc(p, c_over_d, s_over_d) == DecPow2(DecSub(DecMul(p, c_over_d), s_over_d))

\* line 69: dFactor = Decimal(1) / (term1 + term2).sqrt()
Reciprocal(root) == IF IsExc(root) THEN root ELSE DecDiv(DecimalLit(<<1>>), root)

dFactor_of(term1, term2) ==
  IF IsExc(term1) THEN term1 ELSE Reciprocal(DecSqrt(DecAdd(term1, term2)))

\* lines 67-69 of compute_tau
\* dFactor(p) = 1 / sqrt( ((c/d + p*s/d)^2 / lam^2) + (p*c/d - s/d)^2 )
dFactor_calc(p, c_over_d, s_over_d) ==
  dFactor_of(term1_calc(p, c_over_d, s_over_d), term2_calc(p, c_over_d, s_over_d))

\* lines 63-74 of compute_tau, from the two quotients of lines 63-64
tau_of(p, c_over_d, s_over_d) ==
  IF IsExc(c_over_d) THEN c_over_d
  ELSE IF IsExc(s_over_d) THEN s_over_d
  ELSE tau_xy(p, dFactor_calc(p, c_over_d, s_over_d))

\* lines 61-74: tau(p).x and tau(p).y for a given price bound p, or the
\* exception raised on the way
compute_tau(p) == tau_of(p, DecDiv(c, d), DecDiv(s, d))

\* line 76
TauAlpha ==
  /\ pc = "tauAlpha"
  /\ \E tau \in {compute_tau(alpha)} :
       IF IsExc(tau)
       THEN Uncaught(tau, 76) /\ UNCHANGED tauAlphaVars
       ELSE /\ tauAlpha_x' = tau.x
            /\ tauAlpha_y' = tau.y
            /\ pc' = "tauBeta"
            /\ err' = err
  /\ UNCHANGED <<params, step1Vars, tauBetaVars, step3Vars, step4Vars, out>>

\* lines 77-83
TauBeta ==
  /\ pc = "tauBeta"
  /\ \E tau \in {compute_tau(beta)} :
       IF IsExc(tau)
       THEN Uncaught(tau, 77) /\ UNCHANGED <<tauBetaVars, out>>
       ELSE /\ tauBeta_x' = tau.x
            /\ tauBeta_y' = tau.y
            /\ out' = out \o <<Line("tauAlpha.x = ", tauAlpha_x), Line("tauAlpha.y = ", tauAlpha_y),
                               Line("tauBeta.x  = ", tau.x), Line("tauBeta.y  = ", tau.y), Blank>>
            /\ pc' = "step3"
            /\ err' = err
  /\ UNCHANGED <<params, step1Vars, tauAlphaVars, step3Vars, step4Vars>>

\* u with the factor c * c of z in the place of s * c
u_with_cc == DecMul(DecMul(c, c), DecSub(tauBeta_x, tauAlpha_x))

\* line 86
u_calc == DecMul(DecMul(s, c), DecSub(tauBeta_x, tauAlpha_x))

\* line 87
v_calc == DecAdd(DecMul(DecMul(s, s), tauBeta_y), DecMul(DecMul(c, c), tauAlpha_y))

\* line 88
w_calc == DecMul(DecMul(s, c), DecSub(tauBeta_y, tauAlpha_y))

\* line 89
z_calc == DecAdd(DecMul(DecMul(c, c), tauBeta_x), DecMul(DecMul(s, s), tauAlpha_x))

\* lines 86-95, Step 3: u, v, w, z
Step3 ==
  /\ pc = "step3"
  /\ u' = u_calc
  /\ v' = v_calc
  /\ w' = w_calc
  /\ z' = z_calc
  /\ out' = out \o <<Line("u = ", u'), Line("v = ", v'), Line("w = ", w'), Line("z = ", z'), Blank>>
  /\ pc' = "step4"
  /\ UNCHANGED <<params, step1Vars, tauAlphaVars, tauBetaVars, step4Vars, err>>

\* math.floor(x): rounding towards negative infinity
DecFloor(x) ==
  IF x.sign = 1 /\ x.exp < 0 /\ NatLowNonzero(x.coef, -x.exp)
  THEN PyInt(TRUE, NatAdd(NatShr10(x.coef, -x.exp), <<1>>))
  ELSE DecToInt(x)

\* Scaling by 1e38 followed by a floor
to_int38_floor(val) == DecFloor(DecMul(val, SCALE_38))

\* lines 98-101: scale by 1e38 and truncate toward zero
to_int38(val) == DecToInt(DecMul(val, SCALE_38))

\* lines 103-111, Step 4: scale to 38-decimal integers
Step4 ==
  /\ pc = "step4"
  /\ tauAlpha_x_38' = to_int38(tauAlpha_x)
  /\ tauAlpha_y_38' = to_int38(tauAlpha_y)
  /\ tauBeta_x_38' = to_int38(tauBeta_x)
  /\ tauBeta_y_38' = to_int38(tauBeta_y)
  /\ u_38' = to_int38(u)
  /\ v_38' = to_int38(v)
  /\ w_38' = to_int38(w)
  /\ z_38' = to_int38(z)
  /\ dSq_38' = to_int38(dSq)
  /\ pc' = "constants"
  /\ UNCHANGED <<params, step1Vars, tauAlphaVars, tauBetaVars, step3Vars, out, err>>

\* lines 113-124: the nine constant declarations
PrintConstants ==
  /\ pc = "constants"
  /\ out' = out \o <<Line("=== Solidity Constants (38-decimal, int256) ===", <<>>), Blank,
                     Decl("    int256 internal constant TAU_ALPHA_X = ", tauAlpha_x_38),
                     Decl("    int256 internal constant TAU_ALPHA_Y = ", tauAlpha_y_38),
                     Decl("    int256 internal constant TAU_BETA_X  = ", tauBeta_x_38),
                     Decl("    int256 internal constant TAU_BETA_Y  = ", tauBeta_y_38),
                     Decl("    int256 internal constant U           = ", u_38),
                     Decl("    int256 internal constant V           = ", v_38),
                     Decl("    int256 internal constant W           = ", w_38),
                     Decl("    int256 internal constant Z           = ", z_38),
                     Decl("    int256 internal constant D_SQ        = ", dSq_38), Blank>>
  /\ pc' = "sanity"
  /\ UNCHANGED <<params, step1Vars, tauAlphaVars, tauBetaVars, step3Vars, step4Vars, err>>

\* lines 129-130: (x**2 + (y * lam)**2).sqrt()
norm_calc(tx, ty) == DecSqrt(DecAdd(DecPow2(tx), DecPow2(DecMul(ty, lam))))

\* lines 126-131, the sanity checks
SanityChecks ==
  /\ pc = "sanity"
  /\ \E normAlpha \in {norm_calc(tauAlpha_x, tauAlpha_y)} :
       IF IsExc(normAlpha)
       THEN Uncaught(normAlpha, 129)
            /\ out' = out \o <<Line("=== Sanity Checks ===", <<>>)>>
       ELSE \E normBeta \in {norm_calc(tauBeta_x, tauBeta_y)} :
              IF IsExc(normBeta)
              THEN Uncaught(normBeta, 130)
                   /\ out' = out \o <<Line("=== Sanity Checks ===", <<>>),
                                      Line("|tauAlpha| = ", normAlpha)>>
              ELSE /\ out' = out \o <<Line("=== Sanity Checks ===", <<>>),
                                      Line("|tauAlpha| = ", normAlpha),
                                      Line("|tauBeta|  = ", normBeta),
                                      Line("dSq ~= 1?  ", dSq)>>
                   /\ pc' = "done"
                   /\ err' = err
  /\ UNCHANGED <<params, step1Vars, tauAlphaVars, tauBetaVars, step3Vars, step4Vars>>

Next ==
  \/ PrintParams
  \/ Step1
  \/ TauAlpha
  \/ TauBeta
  \/ Step3
  \/ Step4
  \/ PrintConstants
  \/ SanityChecks

Spec == Init /\ [][Next]_vars

(***************************************************************************)
(* Exact arithmetic on the magnitudes of Decimal values, for stating the   *)
(* properties: no rounding takes place here.                               *)
(***************************************************************************)
ExMul(x, y) == Decimal(0, NatMul(x.coef, y.coef), x.exp + y.exp)

ExSq(x) == ExMul(x, x)

\* The coefficient of x at the exponent e <= x.exp
ExCoefAt(x, e) == NatShl10(x.coef, x.exp - e)

ExAdd(x, y) ==
  Decimal(0, NatAdd(ExCoefAt(x, Min(x.exp, y.exp)), ExCoefAt(y, Min(x.exp, y.exp))),
          Min(x.exp, y.exp))

\* -1, 0, 1 as |x| < |y|, |x| = |y|, |x| > |y|
ExCmp(x, y) == NatCmp(ExCoefAt(x, Min(x.exp, y.exp)), ExCoefAt(y, Min(x.exp, y.exp)))

NatDist(x, y) == IF NatCmp(x, y) >= 0 THEN NatSub(x, y) ELSE NatSub(y, x)

\* | |x| - |y| |
ExDist(x, y) ==
  Decimal(0, NatDist(ExCoefAt(x, Min(x.exp, y.exp)), ExCoefAt(y, Min(x.exp, y.exp))),
          Min(x.exp, y.exp))

\* The digits to which two values computed at the precision prec must agree
\* to count as equal: the last ten are left to the roundings of the
\* operations.
TolDigits == prec - 10

ExWithin(dist, y) == ExCmp(Decimal(0, dist.coef, dist.exp + TolDigits), y) <= 0

\* x = y to TolDigits significant digits
ExClose(x, y) == ExWithin(ExDist(x, y), y)

One == DecimalLit(<<1>>)

NatPowSq(x, n, h) == IF n % 2 = 1 THEN NatMul(NatMul(h, h), x) ELSE NatMul(h, h)

RECURSIVE NatPow(_, _)
NatPow(x, n) == IF n = 0 THEN <<1>> ELSE NatPowSq(x, n, NatPow(x, n \div 2))

\* A Python int within the range of int256
InInt256(n) ==
  \/ NatCmp(n.mag, NatPow(<<2>>, 255)) < 0
  \/ n.neg /\ n.mag = NatPow(<<2>>, 255)

\* The value printed after the label
Printed(label) == out[CHOOSE i \in 1..Len(out) : out[i].label = label].val

(***************************************************************************)
(* The inputs the properties speak of                                      *)
(***************************************************************************)
SourceInputs ==
  /\ alpha = FromWad(ALPHA_WAD)
  /\ beta = FromWad(BETA_WAD)
  /\ c = FromWad(C_WAD)
  /\ s = FromWad(S_WAD)
  /\ lam = FromWad(LAM_WAD)

Positive(x) == x.sign = 0 /\ ~IsZero(x)

\* The contract of the inputs: alpha, beta, c, lambda > 0 and s >= 0
ValidInputs ==
  /\ Positive(alpha) /\ Positive(beta) /\ Positive(c) /\ Positive(lam)
  /\ s.sign = 0

\* c = s = 0, or lambda = 0
Misconfigured == (IsZero(c) /\ IsZero(s)) \/ IsZero(lam)

\* c = 1 and s = 0
Symmetric == ExCmp(c, One) = 0 /\ c.sign = 0 /\ IsZero(s)

\* c^2 + s^2 = 1
UnitRotation == ExCmp(ExAdd(ExSq(c), ExSq(s)), One) = 0

Scaled9 == <<tauAlpha_x_38, tauAlpha_y_38, tauBeta_x_38, tauBeta_y_38,
             u_38, v_38, w_38, z_38, dSq_38>>

Unscaled9 == <<tauAlpha_x, tauAlpha_y, tauBeta_x, tauBeta_y, u, v, w, z, dSq>>

ConstantLabels ==
  {"=== Solidity Constants (38-decimal, int256) ===",
   "    int256 internal constant TAU_ALPHA_X = ",
   "    int256 internal constant TAU_ALPHA_Y = ",
   "    int256 internal constant TAU_BETA_X  = ",
   "    int256 internal constant TAU_BETA_Y  = ",
   "    int256 internal constant U           = ",
   "    int256 internal constant V           = ",
   "    int256 internal constant W           = ",
   "    int256 internal constant Z           = ",
   "    int256 internal constant D_SQ        = "}

SanityLabels == {"=== Sanity Checks ===", "|tauAlpha| = ", "|tauBeta|  = ", "dSq ~= 1?  "}

(***************************************************************************)
(* The properties                                                          *)
(***************************************************************************)
\* n is x * 10^38 truncated towards zero: the magnitude of n is the largest
\* integer not above |x| * 10^38, and n has the sign of x unless it is 0
IsTruncation(x, n) ==
  /\ ExCmp(DecimalLit(n.mag), Decimal(0, x.coef, x.exp + 38)) <= 0
  /\ ExCmp(DecimalLit(NatAdd(n.mag, <<1>>)), Decimal(0, x.coef, x.exp + 38)) > 0
  /\ n.neg = (x.sign = 1 /\ n.mag # <<>>)

\* C1: every scaled output is its value times 10^38 truncated towards zero:
\* the floor when the value is not negative, the ceiling when it is
\* negative; never the nearest integer, never the floor of a negative value.
C1_TruncationLaw ==
  \A i \in 1..9 : Scaled9[i] # None => IsTruncation(Unscaled9[i], Scaled9[i])

\* A negative value with digits beyond the 38th has been scaled
C1_Witness ==
  \E i \in 1..9 :
     /\ Scaled9[i] # None
     /\ Unscaled9[i].sign = 1
     /\ Scaled9[i].mag # <<>>
     /\ ExCmp(DecimalLit(Scaled9[i].mag),
              Decimal(0, Unscaled9[i].coef, Unscaled9[i].exp + 38)) < 0

\* C2 as the specification states it: with c = 1 and s = 0, the magnitude of
\* tau(beta).y is not smaller than that of tau(alpha).y, alpha < beta.
C2_Original ==
  (Symmetric /\ tauBeta_y # None) => ExCmp(tauBeta_y, tauAlpha_y) >= 0

\* C2, amended: with c = 1 and s = 0 and lambda > 0, for price bounds
\* alpha < beta the magnitude of tau(beta).y is not larger than the
\* magnitude of tau(alpha).y.
C2_NotIncreasing ==
  (Symmetric /\ tauBeta_y # None) => ExCmp(tauBeta_y, tauAlpha_y) <= 0

C2_Witness ==
  Symmetric /\ tauBeta_y # None /\ ExCmp(tauBeta_y, tauAlpha_y) < 0

\* 0.99 <= x <= 1.01
NearOne(x) ==
  /\ x.sign = 0
  /\ ExCmp(x, Decimal(0, <<99>>, -2)) >= 0
  /\ ExCmp(x, Decimal(0, <<101>>, -2)) <= 0

\* C3: for the inputs of the source, the two norms printed by the sanity
\* checks are within 1% of 1.
C3_NormsNearOne ==
  (pc = "done" /\ SourceInputs) =>
     NearOne(Printed("|tauAlpha| = ")) /\ NearOne(Printed("|tauBeta|  = "))

\* tx = lam * p / sqrt(1 + lam^2 * p^2), to TolDigits digits
TauXForm(p, tx) ==
  /\ tx.sign = 0
  /\ ExClose(ExMul(ExSq(tx), ExAdd(One, ExMul(ExSq(lam), ExSq(p)))),
             ExMul(ExSq(lam), ExSq(p)))

\* tx = lam / sqrt(1 + lam^2 / p^2), to TolDigits digits
TauXFormOfSpec(p, tx) ==
  /\ tx.sign = 0
  /\ ExClose(ExMul(ExSq(tx), ExAdd(ExSq(p), ExSq(lam))),
             ExMul(ExSq(lam), ExSq(p)))

\* C4 as the specification states it: with c = 1 and s = 0,
\* tau(p).x = lambda / sqrt(1 + lambda^2 / p^2).
C4_Original ==
  Symmetric =>
    /\ tauAlpha_x # None => TauXFormOfSpec(alpha, tauAlpha_x)
    /\ tauBeta_x # None => TauXFormOfSpec(beta, tauBeta_x)

\* C4, amended: with c = 1 and s = 0, for every price bound p > 0 and every
\* lambda > 0, tau(p).x = lambda * p / sqrt(1 + lambda^2 * p^2), to the
\* digits the 200-digit arithmetic keeps.
C4_ClosedForm ==
  Symmetric =>
    /\ tauAlpha_x # None => TauXForm(alpha, tauAlpha_x)
    /\ tauBeta_x # None => TauXForm(beta, tauBeta_x)

C4_Witness ==
  /\ Symmetric /\ tauBeta_x # None
  /\ ExCmp(lam, One) # 0 /\ ExCmp(beta, One) # 0 /\ ExCmp(alpha, One) # 0

\* C5: for the inputs of the source, and for inputs within the contract
\* with c^2 + s^2 = 1, each of the nine scaled outputs is within
\* [-2^255, 2^255 - 1].
C5_Int256Range ==
  (SourceInputs \/ (ValidInputs /\ UnitRotation)) =>
     \A i \in 1..9 : Scaled9[i] # None => InInt256(Scaled9[i])

C5_Witness ==
  /\ ValidInputs /\ UnitRotation /\ ~IsZero(s)
  /\ \A i \in 1..9 : Scaled9[i] # None /\ InInt256(Scaled9[i])

\* C6: with alpha, beta, c, lambda > 0 and s >= 0 the run raises nothing:
\* dSq is not negative, d is not zero, no division by zero and no square
\* root of a negative number ends the run, which goes on to the sanity
\* checks.
C6_NoArithmeticFailure ==
  ValidInputs =>
    /\ pc # "failed"
    /\ err = None
    /\ dSq # None => dSq.sign = 0 /\ ~IsZero(dSq)
    /\ d # None => d.sign = 0 /\ ~IsZero(d)

\* A run within the contract, with c and s that are not a cosine and a
\* sine, has printed its sanity checks
C6_Witness ==
  /\ ValidInputs /\ ~UnitRotation
  /\ pc = "done"
  /\ \E i \in 1..Len(out) : out[i].label = "dSq ~= 1?  "

\* C7: D_SQ is exactly 10^38 for the inputs of the source, and whenever
\* c^2 + s^2 = 1.
C7_DSqScaled ==
  (dSq_38 # None /\ (SourceInputs \/ UnitRotation)) =>
     dSq_38 = PyInt(FALSE, NatShl10(<<1>>, 38))

C7_Witness ==
  /\ UnitRotation /\ ~IsZero(s)
  /\ dSq_38 = PyInt(FALSE, NatShl10(<<1>>, 38))

\* C8: whenever s = 0, the scaled outputs U and W are exactly 0.
C8_ZeroUW ==
  (IsZero(s) /\ u_38 # None) =>
     u_38 = PyInt(FALSE, <<>>) /\ w_38 = PyInt(FALSE, <<>>)

\* s = 0 and w, a negative zero, has been scaled
C8_Witness ==
  /\ IsZero(s) /\ w_38 # None
  /\ w.sign = 1
  /\ ~IsZero(tauBeta_y) /\ ~IsZero(tauAlpha_x)

\* C9: with c = s = 0, or with lambda = 0, the run ends with the exception
\* at the first step that raises: no later step has run, none of the
\* scaled constants is computed or printed and no sanity check is printed.
C9_FatalError ==
  Misconfigured =>
    /\ pc \in {"start", "step1", "tauAlpha", "failed"}
    /\ pc = "failed" => err # None /\ err.line = 76
    /\ pc # "failed" => err = None
    /\ \A i \in 1..9 : Scaled9[i] = None
    /\ u = None /\ v = None /\ w = None /\ z = None
    /\ tauAlpha_x = None /\ tauBeta_x = None
    /\ \A i \in 1..Len(out) : out[i].label \notin (ConstantLabels \cup SanityLabels)

C9_Witness ==
  /\ Misconfigured
  /\ pc = "failed"
  /\ err.exc \in {"DivisionByZero", "InvalidOperation"}
  /\ ~ENABLED Next

\* tx^2 + ty^2 = dSq, to TolDigits digits
OnCircle(tx, ty) == ExClose(ExAdd(ExSq(tx), ExSq(ty)), dSq)

\* 10^76 - 3 * 10^38 < n <= 10^76
NearSquare(n) ==
  /\ NatCmp(n, NatShl10(<<1>>, 76)) <= 0
  /\ NatCmp(n, NatSub(NatShl10(<<1>>, 76), NatShl10(<<3>>, 38))) > 0

SumOfSquares(X, Y) == NatAdd(NatMul(X.mag, X.mag), NatMul(Y.mag, Y.mag))

\* C10: for inputs within the contract each tau point is on the circle of
\* radius d, tau.x^2 + tau.y^2 = dSq with no factor lambda (to the digits
\* the 200-digit arithmetic keeps); and when c^2 + s^2 = 1 each scaled pair
\* has 10^76 - 3 * 10^38 < X^2 + Y^2 <= 10^76.
C10_OnCircle ==
  ValidInputs =>
    /\ tauAlpha_x # None => OnCircle(tauAlpha_x, tauAlpha_y)
    /\ tauBeta_x # None => OnCircle(tauBeta_x, tauBeta_y)
    /\ (UnitRotation /\ tauBeta_y_38 # None) =>
          /\ NearSquare(SumOfSquares(tauAlpha_x_38, tauAlpha_y_38))
          /\ NearSquare(SumOfSquares(tauBeta_x_38, tauBeta_y_38))

\* A rotated curve whose scaled tau(beta) is strictly inside the circle
C10_Witness ==
  /\ ValidInputs /\ UnitRotation /\ ~IsZero(s)
  /\ tauBeta_y_38 # None
  /\ NatCmp(SumOfSquares(tauBeta_x_38, tauBeta_y_38), NatShl10(<<1>>, 76)) < 0
  /\ NearSquare(SumOfSquares(tauBeta_x_38, tauBeta_y_38))
====
